---- MODULE Spec2Model ----
(***************************************************************************)
(* The multi-page procurement proxy (api/pps.js, the variant that merges   *)
(* several upstream pages): one caller request from its arrival to its     *)
(* single response, with every upstream call it issues.                    *)
(*                                                                         *)
(* Conventions.  A JavaScript value is a tagged record (Undef, Null,       *)
(* Str, Num, Arr, Obj).  A string is a sequence of one-character strings.  *)
(* A number is kept in halves (Num(5) is 2.5) so that Math.floor has work  *)
(* to do.  Instants are in minutes (the code's milliseconds / 60000): the  *)
(* calendar fields the code reads do not depend on the part below a        *)
(* minute.                                                                 *)
(***************************************************************************)
EXTENDS Integers, Sequences, FiniteSets, TLC

VARIABLES
  method,        \* req.method
  query,         \* req.query: the caller's raw parameters
  envKey,        \* process.env.DATA_GO_KR_SERVICE_KEY
  now,           \* Date.now() of this request, in minutes
  pc,            \* where the handler stands
  kind, q, filterEnabled, serviceKey,
  fromYmd, toYmd,
  numOfRows, pageNo, maxPages,
  totalCount, pagesToFetch,
  i,             \* the loop counter of the follow-up pages
  results,       \* the parsed bodies of the pages fetched so far
  mergedRaw,     \* the merged envelope, once mergeResponses has returned it
  calls,         \* every upstream call started, in order: its URL, and what
                 \* fetchTextWithTimeout returned for it once it settled
  res            \* the responses sent to the caller, in order

vars == <<method, query, envKey, now, pc, kind, q, filterEnabled, serviceKey,
          fromYmd, toYmd, numOfRows, pageNo, maxPages, totalCount,
          pagesToFetch, i, results, mergedRaw, calls, res>>

----------------------------------------------------------------------------
(* JavaScript values *)

Undef == [t |-> "undef"]
Null == [t |-> "null"]
Str(s) == [t |-> "str", s |-> s]
Num(h) == [t |-> "num", h |-> h]
\* an array: its elements v and, as for any object, its own properties f
Arr(v) == [t |-> "arr", v |-> v, f |-> <<>>]
\* an object: f maps each property it has to its value
Obj(f) == [t |-> "obj", f |-> f]
\* {}
EmptyObj == Obj(<<>>)

\* v?.name
Get(v, name) ==
  IF v.t \in {"obj", "arr"} /\ name \in DOMAIN v.f THEN v.f[name] ELSE Undef

\* o.name = x, on an object or an array
SetField(o, name, x) == [o EXCEPT !.f = (name :> x) @@ o.f]

Nullish(v) == v.t \in {"undef", "null"}

\* `const x = v; ... F(x)`: v is computed once and its value handed to F (TLC
\* computes a LET definition anew at each use while it evaluates ENABLED)
Bind(v, F(_)) == CHOOSE r \in {F(x) : x \in {v}} : TRUE

\* ToBoolean: what `||`, `!` and filter(Boolean) look at
Truthy(v) ==
  CASE v.t = "str" -> v.s # <<>>
    [] v.t = "num" -> v.h # 0
    [] v.t \in {"arr", "obj"} -> TRUE
    [] OTHER -> FALSE

----------------------------------------------------------------------------
(* Strings *)

LowerChar(c) ==
  CASE c = "A" -> "a" [] c = "B" -> "b" [] c = "C" -> "c" [] c = "D" -> "d"
    [] c = "I" -> "i" [] c = "N" -> "n" [] c = "O" -> "o" [] c = "R" -> "r"
    [] c = "T" -> "t" [] c = "U" -> "u" [] c = "W" -> "w" [] c = "X" -> "x"
    [] OTHER -> c

\* String.prototype.toLowerCase
ToLowerCase(s) == [p \in 1..Len(s) |-> LowerChar(s[p])]

IsSpace(c) == c = " "

RECURSIVE TrimStart(_)
TrimStart(s) == IF s # <<>> /\ IsSpace(Head(s)) THEN TrimStart(Tail(s)) ELSE s

RECURSIVE TrimEnd(_)
TrimEnd(s) ==
  IF s # <<>> /\ IsSpace(s[Len(s)]) THEN TrimEnd(SubSeq(s, 1, Len(s) - 1)) ELSE s

\* String.prototype.trim
Trim(s) == TrimEnd(TrimStart(s))

\* String.prototype.slice(0, n)
Slice0(s, n) == SubSeq(s, 1, IF Len(s) < n THEN Len(s) ELSE n)

\* String.prototype.includes: scan the start positions left to right
RECURSIVE IncludesFrom(_, _, _)
IncludesFrom(s, k, p) ==
  IF p + Len(k) - 1 > Len(s) THEN FALSE
  ELSE IF SubSeq(s, p, p + Len(k) - 1) = k THEN TRUE
  ELSE IncludesFrom(s, k, p + 1)

Includes(s, k) == IncludesFrom(s, k, 1)

DigitChars == <<"0", "1", "2", "3", "4", "5", "6", "7", "8", "9">>

IsDigit(c) == \E d \in 1..10 : DigitChars[d] = c

DigitVal(c) == (CHOOSE d \in 1..10 : DigitChars[d] = c) - 1

\* String(n) of a non-negative integer
RECURSIVE NatToStr(_)
NatToStr(n) ==
  IF n < 10 THEN <<DigitChars[n + 1]>> ELSE NatToStr(n \div 10) \o <<DigitChars[(n % 10) + 1]>>

IntToStr(n) == IF n < 0 THEN <<"-">> \o NatToStr(-n) ELSE NatToStr(n)

RECURSIVE DigitsVal(_)
DigitsVal(s) ==
  IF s = <<>> THEN 0 ELSE 10 * DigitsVal(SubSeq(s, 1, Len(s) - 1)) + DigitVal(s[Len(s)])

AllDigits(s) == s # <<>> /\ \A p \in 1..Len(s) : IsDigit(s[p])

\* A number or NaN/Infinity (fin = FALSE); h is the value in halves
NaN == [fin |-> FALSE, h |-> 0]
Finite(h) == [fin |-> TRUE, h |-> h]

\* Number(text): "" and blanks are 0, [-]digits[.5] is that number, anything
\* else is NaN
StrToNumber(s) ==
  LET u == Trim(s)
      neg == u # <<>> /\ Head(u) = "-"
      body == IF neg THEN Tail(u) ELSE u
      half == Len(body) > 2 /\ SubSeq(body, Len(body) - 1, Len(body)) = <<".", "5">>
      int == IF half THEN SubSeq(body, 1, Len(body) - 2) ELSE body
      mag == 2 * DigitsVal(int) + (IF half THEN 1 ELSE 0)
  IN  IF u = <<>> THEN Finite(0)
      ELSE IF AllDigits(int) THEN Finite(IF neg THEN -mag ELSE mag)
      ELSE NaN

\* Number(v)
ToNumber(v) ==
  CASE v.t = "undef" -> NaN
    [] v.t = "null" -> Finite(0)
    [] v.t = "num" -> Finite(v.h)
    [] v.t = "str" -> StrToNumber(v.s)
    [] OTHER -> NaN

\* Math.floor of a value kept in halves
Floor(h) == h \div 2

Min(a, b) == IF a < b THEN a ELSE b
Max(a, b) == IF a > b THEN a ELSE b

\* String.prototype.padStart(n, c)
padStart(s, n, c) == IF Len(s) >= n THEN s ELSE [p \in 1..(n - Len(s)) |-> c] \o s

\* the escape of one character; letters, digits and - _ . ! ~ * ' ( ) stay
EncodeChar(c) ==
  CASE c = " " -> <<"%", "2", "0">>
    [] c = "+" -> <<"%", "2", "B">>
    [] c = "/" -> <<"%", "2", "F">>
    [] c = "=" -> <<"%", "3", "D">>
    [] c = "%" -> <<"%", "2", "5">>
    [] OTHER -> <<c>>

RECURSIVE encodeURIComponent(_)
encodeURIComponent(s) ==
  IF s = <<>> THEN <<>> ELSE EncodeChar(Head(s)) \o encodeURIComponent(Tail(s))

----------------------------------------------------------------------------
(* The handler's helpers *)

Bid == <<"b", "i", "d">>
Award == <<"a", "w", "a", "r", "d">>
Contract == <<"c", "o", "n", "t", "r", "a", "c", "t">>

\* `v || "bid"` and String(...) of a query value
OrDefault(v, def) == IF Truthy(v) THEN v.s ELSE def

\* normalizeKind without its fallback to "bid"
normalizeKind_NoFallback(v) == Trim(ToLowerCase(OrDefault(v, Bid)))

normalizeKind(v) ==
  LET k == Trim(ToLowerCase(OrDefault(v, Bid)))
  IN  IF k = Bid \/ k = Award \/ k = Contract THEN k ELSE Bid

clampInt(v, def, min, max) ==
  LET n == ToNumber(v)
      x == IF n.fin THEN Floor(n.h) ELSE def
  IN  Min(max, Max(min, x))

toInt(v, def) ==
  LET n == ToNumber(v)
  IN  IF n.fin THEN Floor(n.h) ELSE def

\* Math.ceil(a / b) for b > 0
CeilDiv(a, b) == -((-a) \div b)

\* decidePagesToFetch with Math.floor for Math.ceil
decidePagesToFetch_Floor(tc, rows, page, maxP) ==
  IF tc = 0 \/ tc <= 0 THEN maxP
  ELSE Max(1, Min(maxP, (tc \div rows) - (page - 1)))

\* decidePagesToFetch without the Math.max(1, ...)
decidePagesToFetch_NoFloorOfOne(tc, rows, page, maxP) ==
  IF tc = 0 \/ tc <= 0 THEN maxP
  ELSE Min(maxP, CeilDiv(tc, rows) - (page - 1))

decidePagesToFetch(tc, rows, page, maxP) ==
  IF tc = 0 \/ tc <= 0 THEN maxP
  ELSE LET totalPages == CeilDiv(tc, rows)
           remain == totalPages - (page - 1)
       IN  Max(1, Min(maxP, remain))

----------------------------------------------------------------------------
(* Dates: the UTC calendar fields of an instant, as ECMAScript defines them *)

MinutesPerDay == 1440

Day(t) == t \div MinutesPerDay

DayFromYear(y) ==
  365 * (y - 1970) + ((y - 1969) \div 4) - ((y - 1901) \div 100) + ((y - 1601) \div 400)

InLeapYear(y) == (y % 4 = 0 /\ y % 100 # 0) \/ y % 400 = 0

\* Date.prototype.getUTCFullYear
getUTCFullYear(t) ==
  LET d == Day(t)
  IN  CHOOSE y \in (1969 + (d \div 366))..(1971 + (d \div 365)) :
        DayFromYear(y) <= d /\ d < DayFromYear(y + 1)

DayWithinYear(t) == Day(t) - DayFromYear(getUTCFullYear(t))

\* the first day (within the year) of each month, January = 0
MonthStart(m, leap) ==
  LET base == <<0, 31, 59, 90, 120, 151, 181, 212, 243, 273, 304, 334, 365>>
  IN  base[m + 1] + (IF leap /\ m >= 2 THEN 1 ELSE 0)

\* Date.prototype.getUTCMonth (0-based)
getUTCMonth(t) ==
  LET leap == InLeapYear(getUTCFullYear(t))
      dy == DayWithinYear(t)
  IN  CHOOSE m \in 0..11 : MonthStart(m, leap) <= dy /\ dy < MonthStart(m + 1, leap)

\* Date.prototype.getUTCDate
getUTCDate(t) ==
  DayWithinYear(t) - MonthStart(getUTCMonth(t), InLeapYear(getUTCFullYear(t))) + 1

\* String(n).padStart(2, "0")
pad2(n) == LET s == IntToStr(n) IN IF Len(s) < 2 THEN <<"0">> \o s ELSE s

fmtYmd(d) == IntToStr(getUTCFullYear(d)) \o pad2(getUTCMonth(d) + 1) \o pad2(getUTCDate(d))

\* new Date(Date.now() + 9 * 60 * 60 * 1000)
getNowKstDate(t) == t + 9 * 60

\* the upstream's own limits, 7 and 30 days, taken for the look-back
daysBack_Limits(k) == IF k = Award THEN 7 ELSE 30

\* kind === "award" ? 6 : 29
daysBack(k) == IF k = Award THEN 6 ELSE 29

\* new Date(nowKst.getTime() - daysBack * 24 * 60 * 60 * 1000)
fromKstOf(nowKst, k) == nowKst - daysBack(k) * 24 * 60

----------------------------------------------------------------------------
(* The upstream envelope: normalising, merging *)

\* a ?? b
Coalesce(a, b) == IF Nullish(a) THEN b ELSE a

\* pickItems without its last step, the unwrapping of a sole container
pickItems_NoUnwrap(raw) ==
  LET body == Get(Get(raw, "response"), "body")
      list == Coalesce(Get(Get(body, "items"), "item"),
              Coalesce(Get(body, "items"),
              Coalesce(Get(Get(raw, "items"), "item"),
              Coalesce(Get(raw, "items"), Arr(<<>>)))))
  IN  IF list.t = "arr" THEN list.v
      ELSE IF Truthy(list) THEN <<list>> ELSE <<>>

\* pickItems without its Array.isArray test: whatever is found is one item
pickItems_NoArrayTest(raw) ==
  LET body == Get(Get(raw, "response"), "body")
      list == Coalesce(Get(Get(body, "items"), "item"),
              Coalesce(Get(body, "items"),
              Coalesce(Get(Get(raw, "items"), "item"),
              Coalesce(Get(raw, "items"), Arr(<<>>)))))
      arr == IF Truthy(list) THEN <<list>> ELSE <<>>
  IN  IF Len(arr) = 1 /\ Truthy(arr[1]) /\ Get(arr[1], "item").t = "arr"
      THEN Get(arr[1], "item").v
      ELSE arr

pickItems(raw) ==
  LET body == Get(Get(raw, "response"), "body")
      list == Coalesce(Get(Get(body, "items"), "item"),
              Coalesce(Get(body, "items"),
              Coalesce(Get(Get(raw, "items"), "item"),
              Coalesce(Get(raw, "items"), Arr(<<>>)))))
      arr == IF list.t = "arr" THEN list.v
             ELSE IF Truthy(list) THEN <<list>> ELSE <<>>
  IN  IF Len(arr) = 1 /\ Truthy(arr[1]) /\ Get(arr[1], "item").t = "arr"
      THEN Get(arr[1], "item").v
      ELSE arr

\* JSON.parse(JSON.stringify(obj)): properties that are undefined are dropped,
\* an array keeps its elements only (undefined elements become null)
RECURSIVE deepClone(_)
deepClone(v) ==
  CASE v.t = "obj" ->
         Obj([n \in {m \in DOMAIN v.f : v.f[m].t # "undef"} |-> deepClone(v.f[n])])
    [] v.t = "arr" ->
         Arr([p \in 1..Len(v.v) |->
               IF v.v[p].t = "undef" THEN Null ELSE deepClone(v.v[p])])
    [] OTHER -> v

RECURSIVE ConcatItems(_)
ConcatItems(jsonList) ==
  IF jsonList = <<>> THEN <<>>
  ELSE pickItems(Head(jsonList)) \o ConcatItems(Tail(jsonList))

\* a property assignment on a string or a number throws (module code is strict)
Primitive(v) == v.t \in {"str", "num"}

Thrown == [t |-> "throw"]

\* `if (!o.name) o.name = {}`: the object with the property made sure of
Ensure(o, name) == IF Truthy(Get(o, name)) THEN o ELSE SetField(o, name, EmptyObj)

\* lines 257-265 on the clone of the first page, with the list to store
mergeInto(clone, itemsMerged) ==
  Bind(Ensure(clone, "response"), LAMBDA m1 :
  Bind(Ensure(Get(m1, "response"), "body"), LAMBDA r2 :
  Bind(Ensure(Get(r2, "body"), "items"), LAMBDA b2 :
    IF Primitive(clone) \/ Primitive(Get(m1, "response")) \/ Primitive(Get(r2, "body"))
         \/ Primitive(Get(b2, "items"))
    THEN Thrown
    ELSE SetField(m1, "response",
           SetField(r2, "body",
             SetField(b2, "items", SetField(Get(b2, "items"), "item", Arr(itemsMerged))))))))

mergeResponses(jsonList) ==
  Bind(IF jsonList # <<>> /\ Truthy(Head(jsonList)) THEN Head(jsonList) ELSE EmptyObj,
       LAMBDA base : Bind(deepClone(base), LAMBDA clone : mergeInto(clone, ConcatItems(jsonList))))

\* `const mergedRaw = ...` (line 110): left unset when mergeResponses throws
mergedRawOf(rs) == Bind(mergeResponses(rs), LAMBDA merged : IF merged = Thrown THEN Undef ELSE merged)

----------------------------------------------------------------------------
(* extractItems: map, filter, cap *)

\* String(v) of a property value
ToStr(v) ==
  CASE v.t = "str" -> v.s
    [] v.t = "num" /\ v.h % 2 = 0 -> IntToStr(v.h \div 2)
    [] v.t = "num" -> IntToStr(v.h \div 2) \o <<".", "5">>
    [] v.t = "obj" -> <<"[", "o", "b", "j", "e", "c", "t", " ", "O", "b", "j", "e", "c", "t", "]">>
    [] OTHER -> <<>>

\* a || b || ... || def over the properties `names` of x
RECURSIVE FirstTruthy(_, _, _)
FirstTruthy(x, names, def) ==
  IF names = <<>> THEN def
  ELSE IF Truthy(Get(x, Head(names))) THEN Get(x, Head(names))
  ELSE FirstTruthy(x, Tail(names), def)

\* the title's default left empty, as the other fields' defaults are
Untitled_Empty == Str(<<>>)

Untitled == Str(<<"U", "n", "t", "i", "t", "l", "e", "d">>)
EmptyStr == Str(<<>>)

titleChain(k) ==
  IF k = Bid THEN <<"bidNtceNm", "bidNtceName", "bidNm">>
  ELSE IF k = Award THEN <<"bidNtceNm", "bidNm", "bidNtceName">>
  ELSE <<"cntrctNm", "cntrctName", "bidNtceNm">>

orgChain(k) ==
  IF k = Contract THEN <<"dmndInsttNm", "cntrctInsttNm", "ntceInsttNm", "dminsttNm">>
  ELSE <<"ntceInsttNm", "dmndInsttNm", "dminsttNm">>

\* a ?? b ?? ... ?? def over the properties `names` of x
RECURSIVE FirstNonNullish(_, _, _)
FirstNonNullish(x, names, def) ==
  IF names = <<>> THEN def
  ELSE IF ~Nullish(Get(x, Head(names))) THEN Get(x, Head(names))
  ELSE FirstNonNullish(x, Tail(names), def)

dateChain(k) ==
  IF k = Bid THEN <<"bidNtceDate", "bidNtceDt">>
  ELSE IF k = Award THEN <<"opengDate", "opengDt">>
  ELSE <<"cntrctCnclsDate", "cntrctDate">>

timeChain(k) == IF k = Bid THEN <<"bidNtceBgn", "bidNtceTime">> ELSE <<"opengTm">>

amountChain(k) ==
  IF k = Bid THEN <<"asignBdgtAmt", "presmptPrce", "presmPrce">>
  ELSE IF k = Award THEN <<"scsbidAmt", "scsbidPrice", "cntrctAmt">>
  ELSE <<"cntrctAmt", "contAmt">>

statusChain(k) ==
  IF k = Contract THEN <<"cntrctCnclsSttusNm">> ELSE <<"bidNtceSttusNm", "bidNtceSttusName">>

\* the record arr.map builds from one raw item; a property the kind's record
\* does not have reads as undefined
mapItem(x, k) ==
  [title |-> FirstTruthy(x, titleChain(k), Untitled),
   date |-> FirstTruthy(x, dateChain(k), EmptyStr),
   time |-> IF k = Contract THEN Undef ELSE FirstTruthy(x, timeChain(k), EmptyStr),
   org |-> FirstTruthy(x, orgChain(k), EmptyStr),
   amount |-> FirstNonNullish(x, amountChain(k), EmptyStr),
   status |-> FirstTruthy(x, statusChain(k), EmptyStr),
   winner |-> IF k = Award
              THEN FirstTruthy(x, <<"prtcptnEntrpsNm", "sucsfnEntrpsNm">>, EmptyStr)
              ELSE Undef,
   period |-> IF k = Contract
              THEN FirstTruthy(x, <<"cntrctPrd", "cntrctPeriod">>, EmptyStr)
              ELSE Undef,
   _idA |-> IF k = Bid THEN FirstTruthy(x, <<"bidNtceNo", "bidNtceNum">>, EmptyStr) ELSE Undef,
   _idB |-> IF k = Bid THEN FirstTruthy(x, <<"bidNtceOrd", "bidNtceSeq">>, EmptyStr) ELSE Undef]

\* String(q || "").toLowerCase().trim()
qlcOf(qq) == Trim(ToLowerCase(qq))

hasQ(s, qq, fe) ==
  IF ~fe THEN TRUE
  ELSE IF qlcOf(qq) = <<>> THEN TRUE
  ELSE Includes(ToLowerCase(IF Truthy(s) THEN ToStr(s) ELSE <<>>), qlcOf(qq))

\* the filter looking at the title only
keeps_TitleOnly(it, qq, fe) == hasQ(it.title, qq, fe)

\* the predicate of mapped.filter
keeps(it, qq, fe) == hasQ(it.title, qq, fe) \/ hasQ(it.org, qq, fe)

\* the characters of s that /[^\d.]/g leaves
RECURSIVE DigitsAndDots(_)
DigitsAndDots(s) ==
  IF s = <<>> THEN <<>>
  ELSE IF IsDigit(Head(s)) \/ Head(s) = "." THEN <<Head(s)>> \o DigitsAndDots(Tail(s))
  ELSE DigitsAndDots(Tail(s))

\* the position of the first "." of s, Len(s) + 1 when there is none
FirstDot(s) ==
  IF \E p \in 1..Len(s) : s[p] = "." THEN CHOOSE p \in 1..Len(s) : s[p] = "." /\ \A r \in 1..(p - 1) : s[r] # "."
  ELSE Len(s) + 1

\* Number(t) of a text of digits and dots: digits, digits.digits, digits. or
\* .digits; "" is 0; anything else is NaN.  The value is kept as its integer
\* part, the fraction's digits, and whether it is zero.
DecimalNumber(t) ==
  LET d == FirstDot(t)
      int == SubSeq(t, 1, d - 1)
      frac == SubSeq(t, d + 1, Len(t))
      wellFormed == /\ \A p \in 1..Len(frac) : frac[p] # "."
                    /\ (int # <<>> \/ frac # <<>>)
  IN  IF t = <<>> THEN [fin |-> TRUE, int |-> 0, frac |-> <<>>, zero |-> TRUE]
      ELSE IF ~wellFormed THEN [fin |-> FALSE, int |-> 0, frac |-> <<>>, zero |-> FALSE]
      ELSE [fin |-> TRUE, int |-> DigitsVal(int), frac |-> frac,
            zero |-> \A p \in 1..Len(t) : t[p] \in {"0", "."}]

\* Math.round of a non-negative decimal: up from one half on
Round(n) == n.int + (IF n.frac # <<>> /\ DigitVal(n.frac[1]) >= 5 THEN 1 ELSE 0)

\* toLocaleString("en-US") without the grouping
toLocaleString_Ungrouped(n) == NatToStr(n)

\* Number.prototype.toLocaleString("en-US") of a non-negative integer
RECURSIVE toLocaleString(_)
toLocaleString(n) ==
  IF n < 1000 THEN NatToStr(n)
  ELSE toLocaleString(n \div 1000) \o <<",">> \o padStart(NatToStr(n % 1000), 3, "0")

prettifyAmount(v) ==
  LET s == Trim(IF Nullish(v) THEN <<>> ELSE ToStr(v))
      num == DecimalNumber(DigitsAndDots(s))
  IN  IF s = <<>> THEN <<>>
      ELSE IF ~num.fin \/ num.zero THEN <<>>
      ELSE toLocaleString(Round(num))

\* a template literal is the sequence of its parts: each literal part is kept
\* whole as one element, each interpolated text gives its characters
mkSearchUrl(keyword) ==
  <<"https://www.g2b.go.kr:8101/ep/tbid/tbidList.do", "?bidNm=">>
    \o encodeURIComponent(IF Truthy(keyword) THEN ToStr(keyword) ELSE <<>>)

\* String(it._idB || "00").padStart(2, "0")
bidseqOf(it) == padStart(IF Truthy(it._idB) THEN ToStr(it._idB) ELSE <<"0", "0">>, 2, "0")

\* the deep link of lines 366-371
detailUrl(it) ==
  <<"https://www.g2b.go.kr:8081/ep/invitation/publish/bidInfoDtl.do", "?bidno=">>
    \o encodeURIComponent(ToStr(it._idA))
    \o <<"&bidseq=">> \o encodeURIComponent(bidseqOf(it))
    \o <<"&releaseYn=Y&taskClCd=5">>

\* the deep link built for every record
urlOfItem_AlwaysDetail(it, k) == detailUrl(it)

\* lines 364-374
urlOfItem(it, k) ==
  IF k = Bid /\ Truthy(it._idA) THEN detailUrl(it) ELSE mkSearchUrl(it.title)

\* the record withUrl builds from one filtered record
outItem(it, k) ==
  [title |-> it.title, date |-> it.date, time |-> it.time, org |-> it.org,
   amount |-> Str(prettifyAmount(it.amount)), status |-> it.status,
   winner |-> it.winner, period |-> it.period,
   url |-> urlOfItem(it, k), fallbackUrl |-> mkSearchUrl(it.title)]

\* limit: 50
ItemLimit == 50

\* extractItems without the slice(0, limit)
extractItems_NoCap(raw, k, qq, fe, limit) ==
  LET arr == pickItems(raw)
      mapped == [p \in 1..Len(arr) |-> mapItem(arr[p], k)]
      Keep(it) == keeps(it, qq, fe)
      filtered == SelectSeq(mapped, Keep)
  IN  [items |-> [p \in 1..Len(filtered) |-> outItem(filtered[p], k)],
       totalItemsParsed |-> Len(arr),
       matchedAfterFilter |-> Len(filtered)]

\* extractItems with the slice(0, limit) taken before the filter
extractItems_CutFirst(raw, k, qq, fe, limit) ==
  LET arr == pickItems(raw)
      mapped == [p \in 1..Min(limit, Len(arr)) |-> mapItem(arr[p], k)]
      Keep(it) == keeps(it, qq, fe)
      filtered == SelectSeq(mapped, Keep)
  IN  [items |-> [p \in 1..Len(filtered) |-> outItem(filtered[p], k)],
       totalItemsParsed |-> Len(arr),
       matchedAfterFilter |-> Len(filtered)]

\* arr.map(...).filter(...)
filterMapped(arr, k, qq, fe) ==
  LET Keep(it) == keeps(it, qq, fe)
  IN  SelectSeq([p \in 1..Len(arr) |-> Bind(arr[p], LAMBDA x : mapItem(x, k))], Keep)

extractItems(raw, k, qq, fe, limit) ==
  Bind(pickItems(raw), LAMBDA arr :
  Bind(filterMapped(arr, k, qq, fe), LAMBDA filtered :
  Bind(SubSeq(filtered, 1, Min(limit, Len(filtered))), LAMBDA cut :
    [items |-> [p \in 1..Len(cut) |-> Bind(cut[p], LAMBDA it : outItem(it, k))],
     totalItemsParsed |-> Len(arr),
     matchedAfterFilter |-> Len(filtered)])))

----------------------------------------------------------------------------
(* The upstream URL *)

\* endpointByKind[kind], "" for undefined; the common base is left out
endpointByKind(k) ==
  IF k = Bid THEN "getDataSetOpnStdBidPblancInfo"
  ELSE IF k = Award THEN "getDataSetOpnStdScsbidInfo"
  ELSE IF k = Contract THEN "getDataSetOpnStdCntrctInfo"
  ELSE ""

normalizeServiceKey(key) ==
  LET s == Trim(OrDefault(key, <<>>))
  IN  IF s = <<>> THEN s
      ELSE IF \E p \in 1..Len(s) : s[p] = "%" THEN s
      ELSE encodeURIComponent(s)

\* String(req.query.bsnsDivCd || "5")
bsnsDivCdOf(qry) == OrDefault(qry.bsnsDivCd, <<"5">>)

\* baseParams with the category code set for every kind
baseParamsOf_CategoryAlways(k, sk, rows, from, to, bsns) ==
  LET common == [serviceKey |-> sk, type |-> <<"j", "s", "o", "n">>,
                 numOfRows |-> IntToStr(rows), bsnsDivCd |-> bsns]
  IN  IF k = Bid
      THEN ("bidNtceBgnDt" :> (from \o <<"0", "0", "0", "0">>)) @@
           ("bidNtceEndDt" :> (to \o <<"2", "3", "5", "9">>)) @@ common
      ELSE IF k = Award
      THEN ("opengBgnDt" :> (from \o <<"0", "0", "0", "0">>)) @@
           ("opengEndDt" :> (to \o <<"2", "3", "5", "9">>)) @@ common
      ELSE ("cntrctCnclsBgnDate" :> from) @@ ("cntrctCnclsEndDate" :> to) @@ common

\* baseParams after the three `if (kind === ...)` blocks
baseParamsOf(k, sk, rows, from, to, bsns) ==
  LET common == [serviceKey |-> sk, type |-> <<"j", "s", "o", "n">>,
                 numOfRows |-> IntToStr(rows)]
      bid == IF k = Bid
             THEN ("bidNtceBgnDt" :> (from \o <<"0", "0", "0", "0">>)) @@
                  ("bidNtceEndDt" :> (to \o <<"2", "3", "5", "9">>)) @@ common
             ELSE common
      award == IF k = Award
               THEN ("opengBgnDt" :> (from \o <<"0", "0", "0", "0">>)) @@
                    ("opengEndDt" :> (to \o <<"2", "3", "5", "9">>)) @@
                    ("bsnsDivCd" :> bsns) @@ bid
               ELSE bid
  IN  IF k = Contract
      THEN ("cntrctCnclsBgnDate" :> from) @@ ("cntrctCnclsEndDate" :> to) @@ award
      ELSE award

\* the escape URLSearchParams.prototype.toString gives one character of a
\* value; letters, digits and * - . _ stay
FormEncodeChar(c) ==
  CASE c = " " -> <<"+">>
    [] c = "+" -> <<"%", "2", "B">>
    [] c = "/" -> <<"%", "2", "F">>
    [] c = "=" -> <<"%", "3", "D">>
    [] c = "%" -> <<"%", "2", "5">>
    [] OTHER -> <<c>>

RECURSIVE FormEncode(_)
FormEncode(s) ==
  IF s = <<>> THEN <<>> ELSE FormEncodeChar(Head(s)) \o FormEncode(Tail(s))

\* `${endpoint}?${params.toString()}`: the endpoint, and each parameter's
\* value as the query string carries it
buildUrl(endpoint, baseParams, page) ==
  LET params == ("pageNo" :> IntToStr(page)) @@ baseParams
  IN  [endpoint |-> endpoint, params |-> [n \in DOMAIN params |-> FormEncode(params[n])]]

----------------------------------------------------------------------------
(* One upstream call *)

\* a call that has not settled yet
Pending == [state |-> "pending"]

\* what fetchTextWithTimeout returns for an HTTP response
httpResult(status, text) ==
  [state |-> "settled", ok |-> (status >= 200 /\ status <= 299),
   status |-> status, text |-> text]

\* a body that is JSON text, and one that is not
JsonText(v) == [json |-> TRUE, value |-> v]
Garbage == [json |-> FALSE, value |-> Undef]

\* what fetchTextWithTimeout returns when fetch rejects: a network failure,
\* or the abort its 12 s timer sends
fetchFailedResult == [state |-> "settled", ok |-> FALSE, status |-> 599, text |-> Garbage]

\* fetchJsonUpstream without its `if (!ok) throw`
fetchJsonUpstream_NoStatusCheck(r) ==
  IF ~r.text.json
  THEN [threw |-> TRUE, message |-> [text |-> "Upstream non-JSON", status |-> r.status]]
  ELSE [threw |-> FALSE, json |-> r.text.value]

\* fetchJsonUpstream, after the call settled: the parsed body, or the Error thrown
fetchJsonUpstream(r) ==
  IF ~r.ok THEN [threw |-> TRUE, message |-> [text |-> "Upstream", status |-> r.status]]
  ELSE IF ~r.text.json
  THEN [threw |-> TRUE, message |-> [text |-> "Upstream non-JSON", status |-> r.status]]
  ELSE [threw |-> FALSE, json |-> r.text.value]

\* first?.json?.response?.body?.totalCount, through toInt
totalCountOf(first) == toInt(Get(Get(Get(first, "response"), "body"), "totalCount"), 0)

\* the loop running one page too far
loopContinues_OneMore(idx, ptf) == idx <= ptf + 1

\* the loop test `i <= pagesToFetch`
loopContinues(idx, ptf) == idx <= ptf

----------------------------------------------------------------------------
(* The responses *)

\* res.status(204).end()
preflightResponse == [status |-> 204, body |-> [ended |-> TRUE]]

missingKeyResponse == [status |-> 500, body |-> [error |-> "Missing DATA_GO_KR_SERVICE_KEY"]]

invalidKindResponse == [status |-> 400, body |-> [error |-> "Invalid kind. Use bid|award|contract"]]

\* the catch block throwing the failure on instead of answering: the platform
\* ends the request, not the handler
catchResponse_Rethrow(message) == [status |-> 0, body |-> [unhandled |-> message]]

\* the catch block of the handler
catchResponse(message) == [status |-> 500, body |-> [error |-> "Proxy failed", message |-> message]]

kstRangeOf(from, to) ==
  SubSeq(from, 1, 4) \o <<"-">> \o SubSeq(from, 5, 6) \o <<"-">> \o SubSeq(from, 7, 8)
    \o <<" ", "~", " ">> \o
  SubSeq(to, 1, 4) \o <<"-">> \o SubSeq(to, 5, 6) \o <<"-">> \o SubSeq(to, 7, 8)

\* lines 110-138: merge, extract, and the 200 payload (or what the catch block
\* sends when the merge throws)
finalResponse(rs, k, qq, fe, tc, ptf, rows, page, from, to, firstUrl) ==
  Bind(mergeResponses(rs), LAMBDA merged :
    IF merged = Thrown
    THEN catchResponse([text |-> "TypeError", status |-> 0])
    ELSE Bind(extractItems(merged, k, qq, fe, ItemLimit), LAMBDA ex :
           [status |-> 200,
            body |-> [kind |-> k, q |-> qq,
                      meta |-> [totalCountFromApi |-> tc,
                                pagesFetched |-> ptf,
                                numOfRows |-> rows,
                                pageNoStart |-> page,
                                totalItemsParsed |-> ex.totalItemsParsed,
                                matchedAfterFilter |-> ex.matchedAfterFilter,
                                returned |-> Len(ex.items),
                                filterEnabled |-> fe,
                                kstRange |-> kstRangeOf(from, to)],
                      items |-> ex.items,
                      sourceUrl |-> firstUrl]]))

----------------------------------------------------------------------------
(* The inputs the model draws *)

\* raw upstream items; the texts are over a small alphabet with both cases
ItemAB == Obj([bidNtceNm |-> Str(<<"A", "b">>), ntceInsttNm |-> Str(<<"x">>),
               cntrctNm |-> Str(<<"b", "a">>)])
ItemOrgB == Obj([bidNm |-> Str(<<"x", "x">>), dmndInsttNm |-> Str(<<"a", "B">>)])
ItemBare == Obj([bidNtceNo |-> Str(<<"7">>)])

\* a page whose item list is longer than half the cap
BigPageLen == 26

BigList == [p \in 1..BigPageLen |-> IF p % 3 = 0 THEN ItemOrgB ELSE ItemAB]

\* { response: { body: { items, totalCount } } }
Envelope(items, tc) ==
  Obj([response |-> Obj([body |-> Obj([items |-> items, totalCount |-> tc])])])

PageFlat == Envelope(Obj([item |-> Arr(<<ItemAB, ItemOrgB, ItemBare>>)]), Str(<<"5">>))
PageBig == Envelope(Obj([item |-> Arr(BigList)]), Undef)
PageSingle == Envelope(Obj([item |-> ItemAB]), Num(3))
PageEmpty == Null
\* a body that is JSON but no envelope: the text "x"
PageText == Str(<<"x">>)

Pages == {PageFlat, PageBig, PageSingle, PageEmpty, PageText}

\* the HTTP responses the upstream may give: a page, a body that is not
\* JSON, an error status with a JSON body
HttpResponses ==
  {httpResult(200, JsonText(pg)) : pg \in Pages}
    \cup {httpResult(200, Garbage), httpResult(500, JsonText(PageSingle))}

Methods == {"GET", "OPTIONS"}

KindInputs == {Undef, Str(<<" ", "A", "W", "A", "R", "D", " ">>),
               Str(<<"c", "o", "n", "t", "r", "a", "c", "t">>), Str(<<"b", "i", "x">>)}
QInputs == {Undef, Str(<<" ", "B">>)}
FilterInputs == {Undef, Str(<<"0">>)}
RowsInputs == {Undef, Str(<<"2">>)}
PageInputs == {Undef, Str(<<"3">>)}
MaxPagesInputs == {Undef, Str(<<"0">>), Str(<<"2", ".", "5">>)}
KeyInputs == {Undef, Str(<<>>), Str(<<"k", "+", "1">>)}

\* 2024-02-10 and 2024-12-20 (days since the epoch), at 15:30 UTC
NowInputs == {19763 * MinutesPerDay + 930}

Queries ==
  [kind : KindInputs, q : QInputs, filter : FilterInputs, numOfRows : RowsInputs,
   pageNo : PageInputs, maxPages : MaxPagesInputs, bsnsDivCd : {Undef}]

----------------------------------------------------------------------------
(* The request *)

\* the handler's locals before it has set them
NoLocals ==
  /\ kind = <<>> /\ q = <<>> /\ filterEnabled = FALSE /\ serviceKey = <<>>
  /\ fromYmd = <<>> /\ toYmd = <<>>
  /\ numOfRows = 0 /\ pageNo = 0 /\ maxPages = 0
  /\ totalCount = 0 /\ pagesToFetch = 0 /\ i = 0
  /\ results = <<>> /\ mergedRaw = Undef /\ calls = <<>> /\ res = <<>>

Init ==
  /\ method \in Methods
  /\ query \in Queries
  /\ envKey \in KeyInputs
  /\ now \in NowInputs
  /\ pc = "start"
  /\ NoLocals

\* the test written `=== undefined`
keyMissing_UndefinedOnly(key) == key.t = "undef"

\* !serviceKeyRaw
keyMissing(key) == ~Truthy(key)

\* String(req.query.q ?? "").trim().slice(0, 60)
qOf(qry) ==
  Slice0(Trim(IF Nullish(qry.q) THEN <<>> ELSE ToStr(qry.q)), 60)

\* String(req.query.filter ?? "1") !== "0"
filterEnabledOf(qry) ==
  (IF Nullish(qry.filter) THEN <<"1">> ELSE ToStr(qry.filter)) # <<"0">>

numOfRowsOf(qry) == clampInt(qry.numOfRows, 100, 1, 1000)
pageNoOf(qry) == clampInt(qry.pageNo, 1, 1, 9999)
maxPagesOf(qry) == clampInt(qry.maxPages, 3, 1, 10)

fromYmdOf(t, k) == fmtYmd(fromKstOf(getNowKstDate(t), k))
toYmdOf(t) == fmtYmd(getNowKstDate(t))

\* buildUrl(endpoint, baseParams, p) from the locals that baseParams is built of
urlFor(k, sk, rows, from, to, qry, p) ==
  buildUrl(endpointByKind(k), baseParamsOf(k, sk, rows, from, to, bsnsDivCdOf(qry)), p)

\* the page number taken one too far
urlOf_PageAhead(p) == urlFor(kind, serviceKey, numOfRows, fromYmd, toYmd, query, p + 1)

\* the URL of page p of this request
urlOf(p) == urlFor(kind, serviceKey, numOfRows, fromYmd, toYmd, query, p)

lastReply == calls[Len(calls)].reply

\* lines 3-83: from the arrival of the request to the first upstream call
Handle ==
  /\ pc = "start"
  /\ UNCHANGED <<mergedRaw, method, query, envKey, now, totalCount, pagesToFetch, i, results>>
  /\ IF method = "OPTIONS"
     THEN /\ res' = Append(res, preflightResponse)
          /\ pc' = "done"
          /\ UNCHANGED <<kind, q, filterEnabled, serviceKey, fromYmd, toYmd,
                         numOfRows, pageNo, maxPages, calls>>
     ELSE /\ kind' = normalizeKind(query.kind)
          /\ q' = qOf(query)
          /\ filterEnabled' = filterEnabledOf(query)
          /\ IF keyMissing(envKey)
             THEN /\ res' = Append(res, missingKeyResponse)
                  /\ pc' = "done"
                  /\ UNCHANGED <<serviceKey, fromYmd, toYmd, numOfRows, pageNo,
                                 maxPages, calls>>
             ELSE /\ serviceKey' = normalizeServiceKey(envKey)
                  /\ IF endpointByKind(kind') = ""
                     THEN /\ res' = Append(res, invalidKindResponse)
                          /\ pc' = "done"
                          /\ UNCHANGED <<fromYmd, toYmd, numOfRows, pageNo,
                                         maxPages, calls>>
                     ELSE /\ fromYmd' = fromYmdOf(now, kind')
                          /\ toYmd' = toYmdOf(now)
                          /\ numOfRows' = numOfRowsOf(query)
                          /\ pageNo' = pageNoOf(query)
                          /\ maxPages' = maxPagesOf(query)
                          /\ calls' = <<[url |-> urlFor(kind', serviceKey', numOfRows', fromYmd',
                                                       toYmd', query, pageNo'),
                                       reply |-> Pending]>>
                          /\ res' = res
                          /\ pc' = "await"

\* the upstream answers the call in flight
UpstreamResponds ==
  /\ pc = "await"
  /\ lastReply = Pending
  /\ \E r \in HttpResponses : calls' = [calls EXCEPT ![Len(calls)].reply = r]
  /\ UNCHANGED <<mergedRaw, method, query, envKey, now, pc, kind, q, filterEnabled, serviceKey,
                 fromYmd, toYmd, numOfRows, pageNo, maxPages, totalCount,
                 pagesToFetch, i, results, res>>

\* the call in flight fails in the network, or the 12 s timer aborts it
FetchFails ==
  /\ pc = "await"
  /\ lastReply = Pending
  /\ calls' = [calls EXCEPT ![Len(calls)].reply = fetchFailedResult]
  /\ UNCHANGED <<mergedRaw, method, query, envKey, now, pc, kind, q, filterEnabled, serviceKey,
                 fromYmd, toYmd, numOfRows, pageNo, maxPages, totalCount,
                 pagesToFetch, i, results, res>>

\* fetchJsonUpstream throws: the catch block answers
PageFailed ==
  /\ pc = "await"
  /\ lastReply # Pending
  /\ fetchJsonUpstream(lastReply).threw
  /\ res' = Append(res, catchResponse(fetchJsonUpstream(lastReply).message))
  /\ pc' = "done"
  /\ UNCHANGED <<mergedRaw, method, query, envKey, now, kind, q, filterEnabled, serviceKey,
                 fromYmd, toYmd, numOfRows, pageNo, maxPages, totalCount,
                 pagesToFetch, i, results, calls>>

\* lines 100-138 from the loop test on: the next call, or the response
Proceed(rs, idx, tc, ptf) ==
  IF loopContinues(idx, ptf)
  THEN /\ calls' = Append(calls, [url |-> urlOf(pageNo + (idx - 1)), reply |-> Pending])
       /\ pc' = "await"
       /\ res' = res
       /\ mergedRaw' = mergedRaw
  ELSE /\ calls' = calls
       /\ mergedRaw' = mergedRawOf(rs)
       /\ pc' = "done"
       /\ res' = Append(res, finalResponse(rs, kind, q, filterEnabled, tc, ptf,
                                           numOfRows, pageNo, fromYmd, toYmd,
                                           calls[1].url))

\* lines 83-100: the first page arrived and parsed
FirstPage ==
  /\ pc = "await"
  /\ lastReply # Pending
  /\ results = <<>>
  /\ ~fetchJsonUpstream(lastReply).threw
  /\ \E first \in {fetchJsonUpstream(lastReply).json} :
     \E tc \in {totalCountOf(first)} :
     \E ptf \in {decidePagesToFetch(tc, numOfRows, pageNo, maxPages)} :
         /\ totalCount' = tc
         /\ pagesToFetch' = ptf
         /\ results' = <<first>>
         /\ i' = 2
         /\ Proceed(<<first>>, 2, tc, ptf)
  /\ UNCHANGED <<method, query, envKey, now, kind, q, filterEnabled, serviceKey,
                 fromYmd, toYmd, numOfRows, pageNo, maxPages>>

\* lines 103-105: a follow-up page arrived and parsed
NextPage ==
  /\ pc = "await"
  /\ lastReply # Pending
  /\ results # <<>>
  /\ ~fetchJsonUpstream(lastReply).threw
  /\ \E rs \in {Append(results, fetchJsonUpstream(lastReply).json)} :
         /\ results' = rs
         /\ i' = i + 1
         /\ Proceed(rs, i + 1, totalCount, pagesToFetch)
  /\ UNCHANGED <<method, query, envKey, now, kind, q, filterEnabled, serviceKey,
                 fromYmd, toYmd, numOfRows, pageNo, maxPages, totalCount,
                 pagesToFetch>>

Next == Handle \/ UpstreamResponds \/ FetchFails \/ PageFailed \/ FirstPage \/ NextPage

Spec == Init /\ [][Next]_vars

\* The handler's own steps run to completion once their await has settled,
\* and every call settles: the upstream answers, or the 12 s timer aborts it.
SpecLive ==
  /\ Spec
  /\ WF_vars(Handle)
  /\ WF_vars(UpstreamResponds \/ FetchFails)
  /\ WF_vars(PageFailed)
  /\ WF_vars(FirstPage)
  /\ WF_vars(NextPage)

----------------------------------------------------------------------------
(* The calls of one request: lines 44-105 over paging numbers at and beyond *)
(* the clamp bounds and over category codes, the upstream answering every   *)
(* page with an envelope that has no items and no total count               *)

ClampMaxRows == 1000
ClampMaxPage == 9999
ClampMaxPages == 10

RowsInputsEdge == {Undef, Str(<<"0">>), Str(NatToStr(ClampMaxRows + 1))}
PageInputsEdge ==
  {Undef, Str(<<"0">>), Str(NatToStr(ClampMaxPage)), Str(NatToStr(ClampMaxPage + 1))}
MaxPagesInputsEdge == {Undef, Str(<<"0">>), Str(NatToStr(ClampMaxPages + 1))}
CategoryInputs == {Undef, Str(<<>>), Str(<<"3">>)}

InitCalls ==
  /\ method = "GET"
  /\ query \in [kind : {Undef, Str(Award), Str(Contract)}, q : {Undef}, filter : {Undef},
                 numOfRows : RowsInputsEdge, pageNo : PageInputsEdge,
                 maxPages : MaxPagesInputsEdge, bsnsDivCd : CategoryInputs]
  /\ envKey = Str(<<"k">>)
  /\ now \in NowInputs
  /\ pc = "start"
  /\ NoLocals

\* the upstream answers the call in flight with a page without items
RespondsEmpty ==
  /\ UpstreamResponds
  /\ calls'[Len(calls')].reply = httpResult(200, JsonText(PageEmpty))

SpecCalls ==
  InitCalls /\ [][Handle \/ RespondsEmpty \/ FetchFails \/ PageFailed \/ FirstPage \/ NextPage]_vars

----------------------------------------------------------------------------
(* The credential on its way into the URL: lines 18-22, 54-58 and 82 over   *)
(* many configured credentials                                              *)

MaxKeyLen == 3

KeyChars == {"k", "2", "+", "%", " "}

KeyInputsWide == {Str(s) : s \in UNION {[1..m -> KeyChars] : m \in 0..MaxKeyLen}}

InitUrl ==
  /\ method = "GET"
  /\ query \in [kind : {Undef, Str(Award)}, q : {Undef}, filter : {Undef},
                 numOfRows : {Undef}, pageNo : {Undef}, maxPages : {Undef},
                 bsnsDivCd : {Undef}]
  /\ envKey \in KeyInputsWide
  /\ now \in NowInputs
  /\ pc = "start"
  /\ NoLocals

SpecUrl == InitUrl /\ [][Handle]_vars

----------------------------------------------------------------------------
(* The page arithmetic on its own: lines 44-48 and 86-97 over a wider range *)
(* of caller parameters and total-count hints than the request above draws  *)

MaxRowsInput == 4
MaxPageInput == 5
MaxTotalCount == 12

NumText(S) == {Str(IntToStr(n)) : n \in S}

RowsInputsWide == {Undef, Str(<<"2", ".", "5">>)} \cup NumText(0..MaxRowsInput \cup {1000, 1001})
PageInputsWide == {Undef, Str(<<"-", "1">>)} \cup NumText(0..MaxPageInput \cup {9999, 10000})
MaxPagesInputsWide == {Undef, Str(<<"a">>)} \cup NumText(0..11)
TotalCountInputs ==
  {Undef, Null, Str(<<"x">>), Num(5), Str(<<"5", "0">>), Num(500)}
    \cup {Num(2 * n) : n \in (-1)..MaxTotalCount}

InitPages ==
  /\ method = "GET"
  /\ query \in [kind : {Undef}, q : {Undef}, filter : {Undef},
                 numOfRows : RowsInputsWide, pageNo : PageInputsWide,
                 maxPages : MaxPagesInputsWide, bsnsDivCd : {Undef}]
  /\ envKey = Str(<<"k">>)
  /\ now \in NowInputs
  /\ pc = "paginate"
  /\ NoLocals

\* lines 44-48 and 86-97, the first page's body carrying the hint tc
Paginate ==
  /\ pc = "paginate"
  /\ \E tc \in TotalCountInputs :
       LET first == Envelope(EmptyObj, tc)
       IN  /\ results' = <<first>>
           /\ totalCount' = totalCountOf(first)
           /\ pagesToFetch' = decidePagesToFetch(totalCountOf(first), numOfRowsOf(query),
                                                 pageNoOf(query), maxPagesOf(query))
  /\ numOfRows' = numOfRowsOf(query)
  /\ pageNo' = pageNoOf(query)
  /\ maxPages' = maxPagesOf(query)
  /\ pc' = "done"
  /\ UNCHANGED <<mergedRaw, method, query, envKey, now, kind, q, filterEnabled, serviceKey,
                 fromYmd, toYmd, i, calls, res>>

SpecPages == InitPages /\ [][Paginate]_vars

----------------------------------------------------------------------------
(* The date window on its own: lines 11 and 36-41 over many instants *)

\* 2023-12-15, 2024-02-10, 2099-12-15, 2100-02-10, in days since the epoch
DayBases == {19706, 19763, 47465, 47522}
MaxDayOffset == 40
\* 00:00, 14:59, 15:00 (midnight in UTC+9), 23:59
MinuteInputs == {0, 899, 900, 1439}

InitDate ==
  /\ method = "GET"
  /\ query \in [kind : {Undef, Str(Award), Str(Contract)}, q : {Undef}, filter : {Undef},
                 numOfRows : {Undef}, pageNo : {Undef}, maxPages : {Undef},
                 bsnsDivCd : {Undef}]
  /\ envKey = Str(<<"k">>)
  /\ now \in {(b + o) * MinutesPerDay + m :
                 b \in DayBases, o \in 0..MaxDayOffset, m \in MinuteInputs}
  /\ pc = "window"
  /\ NoLocals

\* lines 11 and 36-41
Window ==
  /\ pc = "window"
  /\ kind' = normalizeKind(query.kind)
  /\ fromYmd' = fromYmdOf(now, kind')
  /\ toYmd' = toYmdOf(now)
  /\ pc' = "done"
  /\ UNCHANGED <<mergedRaw, method, query, envKey, now, q, filterEnabled, serviceKey,
                 numOfRows, pageNo, maxPages, totalCount, pagesToFetch, i,
                 results, calls, res>>

SpecDate == InitDate /\ [][Window]_vars

----------------------------------------------------------------------------
(* The keyword filter on its own: lines 11-16 and 110-138 over many         *)
(* keywords, with the pages already fetched                                 *)

MaxKeywordLen == 2

KeywordChars == {"a", "A", "b", " "}

TextsUpTo(n) == UNION {[1..m -> KeywordChars] : m \in 0..n}

\* 59 letters, a blank, 2 letters: the 60-character cut ends it in a blank
LongKeyword == [p \in 1..62 |-> IF p = 60 THEN " " ELSE "a"]

QInputsWide == {Undef, Str(LongKeyword)} \cup {Str(s) : s \in TextsUpTo(MaxKeywordLen)}

FItem(title, org) == Obj([bidNtceNm |-> title, cntrctNm |-> title, ntceInsttNm |-> org])

FilterItems ==
  <<FItem(Str(<<"A", "b">>), Str(<<"x">>)),
    FItem(Str(<<"x">>), Str(<<"B", "a">>)),
    FItem(Undef, Str(<<"a", " ", "A">>)),
    FItem(Str(<<"b", " ", "b">>), Undef),
    FItem(Str([p \in 1..59 |-> "A"]), Str(<<>>)),
    FItem(Num(4), Str(<<"x", "x">>))>>

FilterPages ==
  {<<Envelope(Obj([item |-> Arr(FilterItems)]), Undef)>>,
   <<Envelope(Obj([item |-> Arr(SubSeq(FilterItems, 1, 3))]), Undef),
     Envelope(Obj([item |-> Arr(SubSeq(FilterItems, 3, 6))]), Undef)>>,
   <<PageBig, PageBig, Envelope(Arr(FilterItems), Undef)>>}

InitFilter ==
  /\ method = "GET"
  /\ query \in [kind : {Undef, Str(Contract)}, q : QInputsWide,
                 filter : {Undef, Str(<<"0">>), Str(<<>>)},
                 numOfRows : {Undef}, pageNo : {Undef}, maxPages : {Undef},
                 bsnsDivCd : {Undef}]
  /\ envKey = Str(<<"k">>)
  /\ now \in NowInputs
  /\ pc = "extract"
  /\ NoLocals

\* lines 11-16 and 110-138 with the pages fetched being one of `pages`
ExtractFrom(at, pages) ==
  /\ pc = at
  /\ kind' = normalizeKind(query.kind)
  /\ q' = qOf(query)
  /\ filterEnabled' = filterEnabledOf(query)
  /\ \E rs \in pages :
       /\ results' = rs
       /\ mergedRaw' = mergedRawOf(rs)
       /\ pagesToFetch' = Len(rs)
       /\ res' = <<finalResponse(rs, kind', q', filterEnabled', 0, Len(rs),
                                 numOfRowsOf(query), pageNoOf(query),
                                 fromYmdOf(now, kind'), toYmdOf(now), Undef)>>
  /\ pc' = "done"
  /\ UNCHANGED <<method, query, envKey, now, serviceKey, fromYmd, toYmd,
                 numOfRows, pageNo, maxPages, totalCount, i, calls>>

Extract == ExtractFrom("extract", FilterPages)

SpecFilter == InitFilter /\ [][Extract]_vars

----------------------------------------------------------------------------
(* One record on its own: lines 309-388 over many raw items of one page     *)

MaxOrdinal == 10
MaxAmount == 12

\* the texts and numbers 0..n, and a text of n with a currency letter
Ordinals ==
  {Undef, Str(<<"0", "0">>), Str(<<"0", "0", "0">>)}
    \cup {Num(2 * n) : n \in 0..MaxOrdinal} \cup NumText(1..MaxOrdinal)

\* raw items that differ in the fields the links are built from
LinkItems ==
  {Obj([bidNtceNm |-> t1, bidNm |-> t2, ntceInsttNm |-> o,
        bidNtceNo |-> n1, bidNtceNum |-> n2, bidNtceOrd |-> s1, bidNtceSeq |-> s2]) :
     t1 \in {Undef, Str(<<>>), Str(<<"A", " ", "b">>)},
     t2 \in {Undef, Str(<<"x", "/">>)},
     o \in {Undef, Null, Str(<<"o">>)},
     n1 \in {Undef, Str(<<>>), Num(14), Str(<<"R", "/", "1">>),
             Str(<<"2", "0", "2", "4", "0", "1", "0", "1", "0", "0", "1">>)},
     n2 \in {Undef, Str(<<"9">>)},
     s1 \in Ordinals,
     s2 \in {Undef, Str(<<"3">>)}}

Amounts ==
  {Undef, Null, Str(<<>>), Str(<<" ">>), Str(<<"0">>), Str(<<"0", "W">>),
   Str(<<"a", "b">>), Str(<<"1", ",", "2", "3", "4", ",", "0", "0", "0", "W">>),
   Num(2 * 5000000), Str(<<"1", ".", "2", ".", "3">>), Str(<<"1", "2", ".", "5">>),
   Str(<<"0", ".", "4">>), Str(<<".">>), Str(<<"0", ".", "0">>), Str(<<"-", "5", "0", "0", "0">>),
   Num(5), Str(<<" ", "0", "0", "7", " ">>), EmptyObj}
    \cup {Num(2 * 100 * n) : n \in 0..MaxAmount}
    \cup {Str(<<"W">> \o NatToStr(999 * n)) : n \in 0..MaxAmount}

\* raw items that differ in the amount
AmountItems ==
  {Obj([bidNtceNm |-> Str(<<"t">>), asignBdgtAmt |-> a, scsbidAmt |-> a, cntrctAmt |-> a]) :
     a \in Amounts}

\* what a field of a raw item may hold: nothing, null, the empty text, zero,
\* and two values that are not empty
ChainValues == {Undef, Null, Str(<<>>), Num(0), Str(<<"7">>), Str(<<"8", "0", "0", "0">>)}

\* the names that stand at place n of a fallback chain of kind k
NamesAt(k, n) ==
  {c[n] : c \in {c \in {titleChain(k), dateChain(k), timeChain(k), orgChain(k), amountChain(k),
                        statusChain(k), <<"prtcptnEntrpsNm", "sucsfnEntrpsNm">>,
                        <<"cntrctPrd", "cntrctPeriod">>} : Len(c) >= n}}

\* a raw item of kind k holding a at the first place of every chain, b at
\* the second and c at the later ones
ChainItem(k, a, b, c) ==
  Obj([n \in NamesAt(k, 1) \cup NamesAt(k, 2) \cup NamesAt(k, 3) \cup NamesAt(k, 4) |->
         IF n \in NamesAt(k, 1) THEN a ELSE IF n \in NamesAt(k, 2) THEN b ELSE c])

ChainItems ==
  {ChainItem(k, a, b, c) : k \in {Bid, Award, Contract}, a \in ChainValues,
                           b \in ChainValues, c \in ChainValues}

RecordPages ==
  {<<Envelope(Obj([item |-> Arr(<<x>>)]), Undef)>> : x \in LinkItems \cup AmountItems \cup ChainItems}

InitRecord ==
  /\ method = "GET"
  /\ query \in [kind : {Undef, Str(Award), Str(Contract)}, q : {Undef}, filter : {Undef},
                 numOfRows : {Undef}, pageNo : {Undef}, maxPages : {Undef},
                 bsnsDivCd : {Undef}]
  /\ envKey = Str(<<"k">>)
  /\ now \in NowInputs
  /\ pc = "record"
  /\ NoLocals

MapRecord == ExtractFrom("record", RecordPages)

SpecRecord == InitRecord /\ [][MapRecord]_vars

----------------------------------------------------------------------------
(* The envelope shapes on their own: lines 246-297 over item lists found at *)
(* every path, of every nesting                                             *)

MaxListLen == 3

ItemA == Obj([bidNtceNm |-> Str(<<"a">>)])
ItemB == Obj([bidNtceNm |-> Str(<<"b">>)])

\* { item: [...] }
Container(list) == Obj([item |-> Arr(list)])

\* what an item array may hold: records, and containers one and two deep
Elements == {ItemA, ItemB, Container(<<ItemA, ItemB>>), Container(<<Container(<<ItemA, ItemB>>)>>)}

ItemArrays == UNION {[1..n -> Elements] : n \in 0..MaxListLen}

\* what stands where the item list is looked for
ItemLists ==
  {Arr(l) : l \in ItemArrays}
    \cup Elements
    \cup {Undef, Null, Str(<<>>), EmptyObj, Obj([item |-> Null]), Obj([item |-> ItemA])}

\* the four places pickItems looks at, in its order
AtPath(n, list) ==
  CASE n = 1 -> Envelope(Obj([item |-> list]), Undef)
    [] n = 2 -> Envelope(list, Undef)
    [] n = 3 -> Obj([items |-> Obj([item |-> list])])
    [] OTHER -> Obj([items |-> list])

FewLists ==
  {Arr(<<>>), Arr(<<ItemA>>), Arr(<<ItemB, ItemA>>), ItemB, Null,
   Arr(<<Container(<<ItemA, ItemB>>)>>)}

EnvelopePages ==
  {<<AtPath(n, l)>> : n \in 1..4, l \in ItemLists}
    \cup {<<AtPath(n, l), AtPath(m, k)>> : n \in {1, 2}, m \in {1, 4}, l \in FewLists, k \in FewLists}

InitEnvelope ==
  /\ method = "GET"
  /\ query \in [kind : {Undef}, q : {Undef}, filter : {Undef, Str(<<"0">>)},
                 numOfRows : {Undef}, pageNo : {Undef}, maxPages : {Undef},
                 bsnsDivCd : {Undef}]
  /\ envKey = Str(<<"k">>)
  /\ now \in NowInputs
  /\ pc = "normalize"
  /\ NoLocals

Normalize == ExtractFrom("normalize", EnvelopePages)

SpecEnvelope == InitEnvelope /\ [][Normalize]_vars

----------------------------------------------------------------------------
(* What the claims speak of *)

\* the calls that have not settled
InFlight == {c \in 1..Len(calls) : calls[c].reply = Pending}

\* call c settled and its page failed: no HTTP response (timeout, network
\* failure), a status outside 2xx, or a body that is not JSON
PageFailure(c) ==
  /\ calls[c].reply # Pending
  /\ \/ calls[c].reply.status = 599
     \/ calls[c].reply.status < 200
     \/ calls[c].reply.status > 299
     \/ ~calls[c].reply.text.json

Answered == pc = "done" /\ res # <<>>

Succeeded == Answered /\ res[Len(res)].status = 200

HasItems(r) == "items" \in DOMAIN r.body

\* a calendar date written YYYYMMDD, as days since 1970-01-01 (the civil
\* calendar counted in 400-year eras, months from March)
CivilDays(ymd) ==
  LET y0 == DigitsVal(SubSeq(ymd, 1, 4))
      m == DigitsVal(SubSeq(ymd, 5, 6))
      d == DigitsVal(SubSeq(ymd, 7, 8))
      y == IF m <= 2 THEN y0 - 1 ELSE y0
      era == y \div 400
      yoe == y - era * 400
      doy == ((153 * (IF m > 2 THEN m - 3 ELSE m + 9) + 2) \div 5) + d - 1
      doe == yoe * 365 + (yoe \div 4) - (yoe \div 100) + doy
  IN  era * 146097 + doe - 719468

\* YYYYMMDD texts compare as dates when compared as numbers
YmdLeq(a, b) == DigitsVal(a) <= DigitsVal(b)

----------------------------------------------------------------------------
(* C1: every success payload has totalItemsParsed >= matchedAfterFilter >=  *)
(* returned, returned is the length of items, and returned <= 50.           *)
C1_CountsOrdered ==
  \A n \in 1..Len(res) :
    res[n].status = 200 =>
      LET m == res[n].body.meta
      IN  /\ m.totalItemsParsed >= m.matchedAfterFilter
          /\ m.matchedAfterFilter >= m.returned
          /\ m.returned = Len(res[n].body.items)
          /\ m.returned <= 50

\* a success where the filter dropped records and the cap cut the rest
C1_Witness ==
  /\ Succeeded
  /\ LET m == res[Len(res)].body.meta
     IN  /\ m.totalItemsParsed > m.matchedAfterFilter
         /\ m.matchedAfterFilter > m.returned
         /\ m.returned = 50

(* C2: once the fetch of a page has failed, that call is the last call of   *)
(* the request (no later page, no retry), and no response of the request    *)
(* carries an items list; the request ends with one response, not a success.*)
C2_AllOrNothing ==
  \A c \in 1..Len(calls) :
    PageFailure(c) =>
      /\ c = Len(calls)
      /\ \A n \in 1..Len(res) : ~HasItems(res[n]) /\ res[n].status # 200
      /\ pc = "done" => Len(res) = 1

\* a follow-up page failed after earlier pages had brought items
C2_Witness ==
  /\ Answered
  /\ Len(calls) >= 2
  /\ PageFailure(Len(calls))
  /\ pickItems(results[1]) # <<>>

(* C3: whenever a fetched page fails, the response has status 502.          *)
C3_UpstreamFailureIs502 ==
  \A c \in 1..Len(calls) :
    (PageFailure(c) /\ Answered) => res[Len(res)].status = 502

(* C4: a request issues at most pagesToFetch upstream calls (one, as long   *)
(* as the first page has not told pagesToFetch), and at most one of its     *)
(* calls is in flight at any moment.                                        *)
C4_BoundedSequential ==
  /\ Len(calls) <= (IF results # <<>> THEN pagesToFetch ELSE 1)
  /\ Cardinality(InFlight) <= 1

\* the last of three calls is in flight, the two before it have settled
C4_Witness ==
  /\ pagesToFetch = 3
  /\ Len(calls) = 3
  /\ InFlight = {3}

(* C7, as claimed: with the credential absent, every request ends with the  *)
(* 500 configuration-error payload and issues no upstream call.             *)
C7_EveryRequest ==
  ~Truthy(envKey) =>
    /\ calls = <<>>
    /\ pc = "done" => res = <<missingKeyResponse>>

(* C7, amended: with the credential absent, every request other than a CORS *)
(* preflight (method OPTIONS, answered 204 before the credential is read)   *)
(* ends with the 500 configuration-error payload; no request issues an      *)
(* upstream call.                                                           *)
C7_EveryRequestButPreflight ==
  ~Truthy(envKey) =>
    /\ calls = <<>>
    /\ pc = "done" =>
         res = <<IF method = "OPTIONS" THEN preflightResponse ELSE missingKeyResponse>>
    /\ pc = "start" => ENABLED Handle

C7_Witness ==
  /\ ~Truthy(envKey)
  /\ method = "GET"
  /\ pc = "done"
  /\ res = <<missingKeyResponse>>

\* the kind the caller gave is one of bid, award, contract once lower-cased
\* and trimmed
KindRecognized ==
  /\ query.kind.t = "str"
  /\ Trim(ToLowerCase(query.kind.s)) \in {Bid, Award, Contract}

(* C8: a kind that is missing or not recognized is treated as bid: no 400   *)
(* response; every upstream call goes to the bid endpoint with the bid date *)
(* fields (and no other kind's), the window 29 days long; the success       *)
(* payload reports kind = bid.                                              *)
C8_UnknownKindIsBid ==
  ~KindRecognized =>
    /\ \A n \in 1..Len(res) : res[n].status # 400
    /\ \A n \in 1..Len(res) : res[n].status = 200 => res[n].body.kind = Bid
    /\ \A c \in 1..Len(calls) :
         LET u == calls[c].url
         IN  /\ u.endpoint = "getDataSetOpnStdBidPblancInfo"
             /\ {"bidNtceBgnDt", "bidNtceEndDt"} \subseteq DOMAIN u.params
             /\ DOMAIN u.params \cap {"opengBgnDt", "opengEndDt", "bsnsDivCd",
                                       "cntrctCnclsBgnDate", "cntrctCnclsEndDate"} = {}
             /\ CivilDays(SubSeq(u.params.bidNtceEndDt, 1, 8))
                  - CivilDays(SubSeq(u.params.bidNtceBgnDt, 1, 8)) = 29

\* an unrecognized, non-empty kind, answered with a success
C8_Witness ==
  /\ query.kind.t = "str"
  /\ ~KindRecognized
  /\ Succeeded
  /\ Len(calls) >= 1

\* ceil(a / b) for a > 0, b > 0: the least n with n * b >= a
CeilOf(a, b) == CHOOSE n \in 1..a : n * b >= a /\ (n - 1) * b < a

\* what the claim says pagesToFetch is
ClaimedPages(tc, rows, start, maxP) ==
  IF tc > 0
  THEN LET remaining == CeilOf(tc, rows) - (start - 1)
           least == IF maxP < remaining THEN maxP ELSE remaining
       IN  IF least < 1 THEN 1 ELSE least
  ELSE maxP

(* C5: pagesToFetch is max(1, min(maxPages, ceil(totalCount / rowsPerPage)  *)
(* - (startPage - 1))) when totalCount > 0, and maxPages when totalCount is *)
(* absent, zero or negative; with rows 100, start 1, maxPages 3: 250 gives  *)
(* 3, 50 gives 1, 0 gives 3.                                                *)
C5_PagesFormula ==
  results # <<>> =>
    /\ pagesToFetch = ClaimedPages(totalCount, numOfRows, pageNo, maxPages)
    /\ Nullish(Get(Get(Get(results[1], "response"), "body"), "totalCount"))
         => pagesToFetch = maxPages
    /\ (numOfRows = 100 /\ pageNo = 1 /\ maxPages = 3) =>
         /\ totalCount = 250 => pagesToFetch = 3
         /\ totalCount = 50 => pagesToFetch = 1
         /\ totalCount = 0 => pagesToFetch = 3

\* the claim's first example: 250 records, 100 a page, 3 pages at most
C5_Witness ==
  /\ pc = "done"
  /\ numOfRows = 100 /\ pageNo = 1 /\ maxPages = 3
  /\ totalCount = 250
  /\ pagesToFetch = 3

(* C6: pagesToFetch is at least 1 and at most maxPages; with the other      *)
(* inputs fixed it does not decrease when maxPages grows (within 1..10) and *)
(* does not increase when startPage grows (within 1..9999).                 *)
C6_PagesMonotone ==
  results # <<>> =>
    /\ pagesToFetch >= 1
    /\ pagesToFetch <= maxPages
    /\ \A mp \in 1..10 :
         LET other == decidePagesToFetch(totalCount, numOfRows, pageNo, mp)
         IN  /\ mp >= maxPages => other >= pagesToFetch
             /\ mp <= maxPages => other <= pagesToFetch
    /\ \A sp \in {1, pageNo - 1, pageNo + 1, pageNo + 2, pageNo + 3, 9999} :
         LET other == decidePagesToFetch(totalCount, numOfRows, sp, maxPages)
         IN  (sp >= 1 /\ sp <= 9999) =>
               /\ sp >= pageNo => other <= pagesToFetch
               /\ sp <= pageNo => other >= pagesToFetch

\* one page more allowed gives a page more, starting two pages later gives a
\* page less
C6_Witness ==
  /\ pc = "done"
  /\ pagesToFetch = 2
  /\ decidePagesToFetch(totalCount, numOfRows, pageNo, maxPages + 1) = 3
  /\ decidePagesToFetch(totalCount, numOfRows, pageNo + 2, maxPages) = 1

(* C9: the window's from is not after its to, the two are exactly           *)
(* lookbackDays(kind) calendar days apart (6 for award, 29 for bid and      *)
(* contract), and to is the calendar date of the instant shifted by +9h.    *)
C9_DateWindow ==
  fromYmd # <<>> =>
    /\ Len(fromYmd) = 8 /\ Len(toYmd) = 8
    /\ YmdLeq(fromYmd, toYmd)
    /\ CivilDays(toYmd) - CivilDays(fromYmd) = (IF kind = Award THEN 6 ELSE 29)
    /\ kind \in {Bid, Contract} => CivilDays(toYmd) - CivilDays(fromYmd) = 29
    /\ CivilDays(toYmd) = (now + 9 * 60) \div (24 * 60)

\* a bid window that spans 29 February 2024, computed after 15:00 UTC
C9_Witness ==
  /\ pc = "done"
  /\ kind = Bid
  /\ fromYmd = <<"2", "0", "2", "4", "0", "2", "0", "1">>
  /\ toYmd = <<"2", "0", "2", "4", "0", "3", "0", "1">>
  /\ now % MinutesPerDay >= 900

\* k occurs in s as a run of consecutive characters
SubstringOf(k, s) ==
  \E a \in 0..(Len(s) - Len(k)) : \A j \in 1..Len(k) : s[a + j] = k[j]

\* the keyword the filter compares: the effective keyword, trimmed, case-folded
Keyword == Trim(ToLowerCase(q))

\* what the claim says of a mapped record
Passes(it) ==
  IF ~filterEnabled \/ Keyword = <<>> THEN TRUE
  ELSE \/ SubstringOf(Keyword, ToLowerCase(ToStr(it.title)))
       \/ SubstringOf(Keyword, ToLowerCase(ToStr(it.org)))

\* the mapped records of the merged list of all the pages fetched
MappedAll ==
  LET arr == pickItems(mergeResponses(results))
  IN  [p \in 1..Len(arr) |-> mapItem(arr[p], kind)]

----------------------------------------------------------------------------
(* What the claims about one record speak of *)

\* the records of the success payload
Returned == IF Succeeded THEN res[Len(res)].body.items ELSE <<>>

\* the raw items of the merged list
RawItems == pickItems(mergedRaw)

\* no record was dropped by the filter or the cap: record p is of raw item p
Unfiltered == Len(Returned) = Len(RawItems)

RawId(x) == FirstTruthy(x, <<"bidNtceNo", "bidNtceNum">>, EmptyStr)
RawOrdinal(x) == FirstTruthy(x, <<"bidNtceOrd", "bidNtceSeq">>, EmptyStr)

TwoDigits(s) == Len(s) = 2 /\ IsDigit(s[1]) /\ IsDigit(s[2])

\* the character a percent escape stands for
Unescape(a, b) ==
  CASE <<a, b>> = <<"2", "0">> -> " "
    [] <<a, b>> = <<"2", "B">> -> "+"
    [] <<a, b>> = <<"2", "F">> -> "/"
    [] <<a, b>> = <<"3", "D">> -> "="
    [] <<a, b>> = <<"2", "5">> -> "%"
    [] OTHER -> "?"

\* a percent-encoded text read back, once
RECURSIVE PercentDecode(_)
PercentDecode(s) ==
  IF s = <<>> THEN <<>>
  ELSE IF Head(s) = "%" /\ Len(s) >= 3
  THEN <<Unescape(s[2], s[3])>> \o PercentDecode(SubSeq(s, 4, Len(s)))
  ELSE <<Head(s)>> \o PercentDecode(Tail(s))

\* the bidno and bidseq a detail link carries
BidnoOf(u) == SubSeq(u, 3, (CHOOSE p \in 1..Len(u) : u[p] = "&bidseq=") - 1)
BidseqOf(u) == SubSeq(u, (CHOOSE p \in 1..Len(u) : u[p] = "&bidseq=") + 1, Len(u) - 1)

IsDetailLink(u) ==
  /\ Len(u) >= 4
  /\ u[1] = "https://www.g2b.go.kr:8081/ep/invitation/publish/bidInfoDtl.do"
  /\ u[2] = "?bidno="
  /\ \E p \in 3..(Len(u) - 1) : u[p] = "&bidseq="
  /\ u[Len(u)] = "&releaseYn=Y&taskClCd=5"

(* C11: for every bid record whose raw notice identifier is non-empty, the  *)
(* detail link carries that identifier as bidno, and as bidseq an ordinal   *)
(* of exactly 2 digits, zero-padded, "00" when the ordinal is absent        *)
(* (identifier 20240101001 with ordinal 1: bidno=20240101001&bidseq=01).    *)
C11_DetailLink ==
  (kind = Bid /\ Unfiltered) =>
    \A p \in 1..Len(Returned) :
      LET x == RawItems[p]
          u == Returned[p].url
      IN  Truthy(RawId(x)) =>
            /\ IsDetailLink(u)
            /\ PercentDecode(BidnoOf(u)) = ToStr(RawId(x))
            /\ TwoDigits(BidseqOf(u))
            /\ ~Truthy(RawOrdinal(x)) => BidseqOf(u) = <<"0", "0">>
            /\ ToStr(RawOrdinal(x)) = <<"1">> => BidseqOf(u) = <<"0", "1">>

IsSearchLink(u) ==
  /\ Len(u) >= 2
  /\ u[1] = "https://www.g2b.go.kr:8101/ep/tbid/tbidList.do"
  /\ u[2] = "?bidNm="

(* C12: every returned record carries a fallback link that is not empty and *)
(* is the search listing for its title, also when a deep link was produced; *)
(* for award and contract records and for bid records without an            *)
(* identifier the detail link equals that search-listing link.              *)
C12_FallbackLink ==
  \A p \in 1..Len(Returned) :
    LET r == Returned[p]
    IN  /\ r.fallbackUrl # <<>>
        /\ IsSearchLink(r.fallbackUrl)
        /\ PercentDecode(SubSeq(r.fallbackUrl, 3, Len(r.fallbackUrl))) = ToStr(r.title)
        /\ kind # Bid => r.url = r.fallbackUrl
        /\ (kind = Bid /\ Unfiltered /\ ~Truthy(RawId(RawItems[p]))) => r.url = r.fallbackUrl
        /\ (kind = Bid /\ Unfiltered /\ Truthy(RawId(RawItems[p]))) =>
             IsDetailLink(r.url) /\ r.url # r.fallbackUrl

\* a bid record with a deep link, its title holding a blank that the
\* fallback link escapes
C12_Witness ==
  /\ kind = Bid
  /\ Len(Returned) = 1
  /\ IsDetailLink(Returned[1].url)
  /\ Returned[1].title = Str(<<"A", " ", "b">>)
  /\ Len(Returned[1].fallbackUrl) = 2 + 5

\* String(v ?? "") of the raw amount of item x
AmountText(x) ==
  LET a == FirstNonNullish(x, amountChain(kind), EmptyStr)
  IN  IF Nullish(a) THEN <<>> ELSE ToStr(a)

HasNonZeroDigit(t) == \E p \in 1..Len(t) : IsDigit(t[p]) /\ t[p] # "0"

Dots(t) == Cardinality({p \in 1..Len(t) : t[p] = "."})

\* digits in groups of three from the right, a separator between the groups
WellGrouped(d) ==
  /\ d # <<>>
  /\ \A p \in 1..Len(d) :
       IF (Len(d) - p + 1) % 4 = 0 THEN d[p] = "," ELSE IsDigit(d[p])
  /\ d[1] # "0"

(* C13: the display string of an amount is empty or made of digits and      *)
(* thousands separators only; it is empty when the source is empty, has no  *)
(* number in it or is zero, or does not parse; otherwise, for an integer or *)
(* a text of digits among currency symbols and separators, it is the        *)
(* integer the digits spell, grouped by three ("1,234,000W" gives           *)
(* 1,234,000; 5000000 gives 5,000,000; "0" gives the empty string).         *)
C13_AmountDisplay ==
  Unfiltered =>
    \A p \in 1..Len(Returned) :
      LET t == AmountText(RawItems[p])
          d == Returned[p].amount.s
      IN  /\ \A c \in 1..Len(d) : IsDigit(d[c]) \/ d[c] = ","
          /\ ~HasNonZeroDigit(t) => d = <<>>
          /\ Dots(t) > 1 => d = <<>>
          /\ (HasNonZeroDigit(t) /\ Dots(t) = 0) =>
               /\ WellGrouped(d)
               /\ DigitsVal(SelectSeq(d, IsDigit)) = DigitsVal(SelectSeq(t, IsDigit))
          /\ t = <<"1", ",", "2", "3", "4", ",", "0", "0", "0", "W">> =>
               d = <<"1", ",", "2", "3", "4", ",", "0", "0", "0">>
          /\ t = <<"5", "0", "0", "0", "0", "0", "0">> =>
               d = <<"5", ",", "0", "0", "0", ",", "0", "0", "0">>
          /\ t = <<"0">> => d = <<>>

\* the numeric amount 5000000, displayed with two separators
C13_Witness ==
  /\ Len(Returned) = 1
  /\ Unfiltered
  /\ Get(RawItems[1], "cntrctAmt") = Num(2 * 5000000)
  /\ Returned[1].amount = Str(<<"5", ",", "0", "0", "0", ",", "0", "0", "0">>)

\* raw item x has none of the properties `names`
NoneOf(x, names) == \A j \in 1..Len(names) : Get(x, names[j]).t = "undef"

NonEmptyText(v) == v.t = "str" /\ v.s # <<>>

(* C17, as claimed: a raw item with none of the title fields yields a       *)
(* record whose title is a non-empty marker, and a raw item with none of    *)
(* the organization fields yields a record whose organization is a          *)
(* non-empty marker.                                                        *)
C17_BothMarkers ==
  Unfiltered =>
    \A p \in 1..Len(Returned) :
      /\ NoneOf(RawItems[p], titleChain(kind)) => NonEmptyText(Returned[p].title)
      /\ NoneOf(RawItems[p], orgChain(kind)) => NonEmptyText(Returned[p].org)

(* C17, amended: for every kind, a raw item with none of the title fields   *)
(* yields a record whose title is the non-empty marker "Untitled"; a raw    *)
(* item with none of the organization fields yields a record whose          *)
(* organization is the empty string.                                        *)
C17_TitleMarkerOrgEmpty ==
  Unfiltered =>
    \A p \in 1..Len(Returned) :
      /\ NoneOf(RawItems[p], titleChain(kind)) =>
           /\ Returned[p].title = Str(<<"U", "n", "t", "i", "t", "l", "e", "d">>)
           /\ NonEmptyText(Returned[p].title)
      /\ NoneOf(RawItems[p], orgChain(kind)) => Returned[p].org = Str(<<>>)

\* an award record of a raw item with no title and no organization
C17_Witness ==
  /\ kind = Award
  /\ Len(Returned) = 1
  /\ Unfiltered
  /\ NoneOf(RawItems[1], titleChain(kind))
  /\ NoneOf(RawItems[1], orgChain(kind))

\* the fallback chain of a logical field for a kind, <<>> when the kind's
\* record has no such field
ChainOf(f, k) ==
  CASE f = "title" -> titleChain(k)
    [] f = "date" -> dateChain(k)
    [] f = "time" -> IF k = Contract THEN <<>> ELSE timeChain(k)
    [] f = "org" -> orgChain(k)
    [] f = "amount" -> amountChain(k)
    [] f = "status" -> statusChain(k)
    [] f = "winner" -> IF k = Award THEN <<"prtcptnEntrpsNm", "sucsfnEntrpsNm">> ELSE <<>>
    [] OTHER -> IF k = Contract THEN <<"cntrctPrd", "cntrctPeriod">> ELSE <<>>

\* an empty field: absent, null, the empty text, or zero
EmptyField(v) == Nullish(v) \/ v = Str(<<>>) \/ v = Num(0)

\* the first field of the chain that is not empty, `none` when all are
RECURSIVE FirstNonEmpty(_, _, _)
FirstNonEmpty(x, names, none) ==
  IF names = <<>> THEN none
  ELSE IF ~EmptyField(Get(x, Head(names))) THEN Get(x, Head(names))
  ELSE FirstNonEmpty(x, Tail(names), none)

TextFields == {"title", "date", "time", "org", "status", "winner", "period"}

\* the text fields of record r are the first non-empty fields of their chains
TextFieldsFirstNonEmpty(r, x) ==
  \A f \in TextFields :
    ChainOf(f, kind) # <<>> =>
      r[f] = FirstNonEmpty(x, ChainOf(f, kind),
                           IF f = "title" THEN Str(<<"U", "n", "t", "i", "t", "l", "e", "d">>)
                           ELSE Str(<<>>))

(* C21: for every kind and every logical field (title, date, time,          *)
(* organization, amount, status, winner, period) the mapped value is the    *)
(* first non-empty field of the field's chain; a field that is present but  *)
(* empty (the empty text, and zero for the amount) does not shadow a later  *)
(* non-empty field; when all are empty the title is the placeholder and the *)
(* other fields are empty.  The amount is seen as its display string.       *)
C21_FirstNonEmpty ==
  Unfiltered =>
    \A p \in 1..Len(Returned) :
      /\ TextFieldsFirstNonEmpty(Returned[p], RawItems[p])
      /\ Returned[p].amount
           = Str(prettifyAmount(FirstNonEmpty(RawItems[p], amountChain(kind), Str(<<>>))))

----------------------------------------------------------------------------
(* What the claims about the envelope speak of *)

\* the item list of an envelope: what stands at the first of the four places
\* that holds something
ItemList(raw) ==
  LET inner == Get(Get(Get(raw, "response"), "body"), "items")
      outer == Get(raw, "items")
  IN  IF ~Nullish(Get(inner, "item")) THEN Get(inner, "item")
      ELSE IF ~Nullish(inner) THEN inner
      ELSE IF ~Nullish(Get(outer, "item")) THEN Get(outer, "item")
      ELSE outer

\* the list mergeResponses stored in the merged envelope
MergedList == Get(Get(Get(Get(mergedRaw, "response"), "body"), "items"), "item").v

\* an array of objects
FlatArray(l) == l.t = "arr" /\ \A p \in 1..Len(l.v) : l.v[p].t = "obj"

\* v is an object holding an array under `item`
WrapsArray(v) == v.t = "obj" /\ Get(v, "item").t = "arr"

OnePage == Len(results) = 1 /\ mergedRaw # Undef

(* C14, as claimed: for every envelope whose item list is a plain array of  *)
(* N objects (N >= 0), the normalized list is exactly that array.           *)
C14_FlatIdentity ==
  (OnePage /\ FlatArray(ItemList(results[1]))) => MergedList = ItemList(results[1]).v

(* C14, amended: for every envelope whose item list is a plain array of N   *)
(* objects, the normalized list is exactly that array, same elements in the *)
(* same order, unless N = 1 and the sole element holds an array under       *)
(* `item`: then the normalized list is that inner array.                    *)
C14_FlatIdentityButContainer ==
  (OnePage /\ FlatArray(ItemList(results[1]))) =>
    LET l == ItemList(results[1]).v
    IN  IF Len(l) = 1 /\ WrapsArray(l[1])
        THEN MergedList = Get(l[1], "item").v
        ELSE MergedList = l

\* a flat array of three records, two of them the same, kept as it is
C14_Witness ==
  /\ OnePage
  /\ ItemList(results[1]) = Arr(<<ItemB, ItemA, ItemB>>)
  /\ MergedList = <<ItemB, ItemA, ItemB>>
  /\ Len(Returned) = 3

\* the normalized item lists of the pages fetched, one after the other
RECURSIVE Flatten(_)
Flatten(lists) == IF lists = <<>> THEN <<>> ELSE Head(lists) \o Flatten(Tail(lists))

PerPage == [p \in 1..Len(results) |-> pickItems(results[p])]

RECURSIVE SumLen(_)
SumLen(lists) == IF lists = <<>> THEN 0 ELSE Len(Head(lists)) + SumLen(Tail(lists))

(* C15: the merged list is the concatenation, in page order, of the         *)
(* normalized item lists of the pages fetched, nothing removed; the         *)
(* totalItemsParsed reported, counted after extractItems has normalized the *)
(* merged envelope again, is the sum of the pages' normalized item counts.  *)
C15_Concatenation ==
  Succeeded =>
    /\ MergedList = Flatten(PerPage)
    /\ res[Len(res)].body.meta.totalItemsParsed = SumLen(PerPage)

(* C20: an item list that is a single object, at the direct or the nested   *)
(* path, yields the one-element list of that object; a null or absent item  *)
(* list yields the empty list; a one-element list whose sole element holds  *)
(* an array under `item` is unwrapped to that array.                        *)
C20_Shapes ==
  OnePage =>
    LET l == ItemList(results[1])
    IN  /\ (l.t = "obj" /\ ~WrapsArray(l)) => MergedList = <<l>>
        /\ Nullish(l) => MergedList = <<>>
        /\ ((l.t = "arr" /\ Len(l.v) = 1 /\ WrapsArray(l.v[1])) =>
              MergedList = Get(l.v[1], "item").v)
        /\ WrapsArray(l) => MergedList = Get(l, "item").v

\* a single record found where the list is looked for, not in an array
C20_Witness ==
  /\ OnePage
  /\ results[1] = AtPath(2, ItemB)
  /\ MergedList = <<ItemB>>
  /\ Len(Returned) = 1

----------------------------------------------------------------------------
(* C16: in the URL requested, a configured credential that holds a percent  *)
(* sign appears as it is, and a credential without one appears              *)
(* percent-encoded once: reading the escapes back once gives the            *)
(* credential.                                                              *)
C16_CredentialEncodedOnce ==
  \A c \in 1..Len(calls) :
    LET wire == calls[c].url.params.serviceKey
        configured == Trim(envKey.s)
    IN  IF \E p \in 1..Len(configured) : configured[p] = "%"
        THEN wire = configured
        ELSE PercentDecode(wire) = configured

\* a response the client can read: the success payload, an error payload,
\* or the preflight's empty 204
WellFormed(r) ==
  \/ r.status = 200 /\ {"kind", "q", "meta", "items", "sourceUrl"} \subseteq DOMAIN r.body
  \/ r.status \in {400, 500} /\ "error" \in DOMAIN r.body
  \/ r.status = 204 /\ method = "OPTIONS" /\ DOMAIN r.body = {"ended"}

(* C18: every request comes to its end, and at its end it has been answered *)
(* exactly once, with a well-formed response: the success payload, an error *)
(* payload, or the preflight's empty 204; before its end it has not been    *)
(* answered.  A failure raised while fetching, merging or mapping, whatever *)
(* the upstream JSON looks like, ends in the error payload.                 *)
C18_AnsweredOnce ==
  /\ <>(pc = "done")
  /\ [](IF pc = "done" THEN Len(res) = 1 /\ WellFormed(res[1]) ELSE res = <<>>)

\* every page arrived and parsed, and the merge failed on what a page held:
\* the request ended with the error payload
C18_Witness ==
  /\ pc = "done"
  /\ Len(calls) >= 2
  /\ \A c \in 1..Len(calls) : ~PageFailure(c)
  /\ Len(res) = 1
  /\ res[1].status = 500
  /\ res[1].body.error = "Proxy failed"

(* C19: in a successful request the upstream calls are the pages startPage, *)
(* startPage + 1, ..., startPage + pagesToFetch - 1, in this order, each    *)
(* once; pagesFetched in the metadata is the number of calls made; the      *)
(* total-count hint is the first page's, whatever later pages say.          *)
C19_PagesInOrder ==
  /\ \A c \in 1..Len(calls) : calls[c].url.params.pageNo = NatToStr(pageNo + c - 1)
  /\ Succeeded =>
       /\ Len(calls) = pagesToFetch
       /\ \A c \in 1..Len(calls) : calls[c].reply # Pending
       /\ \A c, d \in 1..Len(calls) : c # d => calls[c].url # calls[d].url
       /\ pageNo = clampInt(query.pageNo, 1, 1, 9999)
       /\ res[Len(res)].body.meta.pagesFetched = Len(calls)
       /\ res[Len(res)].body.meta.pageNoStart = pageNo
       /\ res[Len(res)].body.meta.totalCountFromApi
            = toInt(Get(Get(Get(results[1], "response"), "body"), "totalCount"), 0)

\* three calls from page 3 on, the second page's hint not the first's
C19_Witness ==
  /\ Succeeded
  /\ pageNo = 3
  /\ Len(calls) = 3
  /\ totalCountOf(results[2]) # totalCountOf(results[1])
  /\ res[Len(res)].body.meta.totalCountFromApi = totalCountOf(results[1])

----------------------------------------------------------------------------
(* What the claims about the assembled result speak of *)

\* the mapped records of the merged list that match, in the merged order
Matching == SelectSeq([p \in 1..Len(RawItems) |-> mapItem(RawItems[p], kind)], Passes)

(* C22: the returned items are exactly the first min(50, totalMatched)      *)
(* records of the filtered list, in the merged order (page by page, and in  *)
(* the order within each page); totalMatched counts every matching record   *)
(* of the merged list, whatever the cap leaves.                             *)
C22_CapAfterFilter ==
  Succeeded =>
    LET b == res[Len(res)].body
    IN  /\ RawItems = Flatten(PerPage)
        /\ b.meta.matchedAfterFilter = Len(Matching)
        /\ Len(b.items) = Min(50, Len(Matching))
        /\ b.meta.returned = Min(50, Len(Matching))
        /\ \A p \in 1..Len(b.items) : b.items[p] = outItem(Matching[p], kind)

\* three pages, 55 records: the third record does not match, 54 do, and the
\* 50 returned run past it to the 51st record of the merged list
C22_Witness ==
  /\ Succeeded
  /\ Len(results) = 3
  /\ Len(RawItems) = 55
  /\ ~Passes(mapItem(RawItems[3], kind))
  /\ res[Len(res)].body.meta.matchedAfterFilter = 54
  /\ Len(Returned) = 50
  /\ Returned[50] = outItem(mapItem(RawItems[51], kind), kind)

----------------------------------------------------------------------------
(* What the claims about the upstream calls speak of *)

\* the parameters every call carries, whatever the kind
CommonFields == {"serviceKey", "type", "numOfRows", "pageNo"}

\* the date-window and filter fields of a kind
KindFields(k) ==
  IF k = Bid THEN {"bidNtceBgnDt", "bidNtceEndDt"}
  ELSE IF k = Award THEN {"opengBgnDt", "opengEndDt", "bsnsDivCd"}
  ELSE {"cntrctCnclsBgnDate", "cntrctCnclsEndDate"}

\* the category code the caller gave, "5" when they gave none
CategoryGiven == IF Truthy(query.bsnsDivCd) THEN query.bsnsDivCd.s ELSE <<"5">>

\* the parameters of call c but pageNo
ButPage(c) == [n \in (DOMAIN calls[c].url.params) \ {"pageNo"} |-> calls[c].url.params[n]]

(* C23: every upstream call carries exactly the date-window fields of its   *)
(* kind and none of another kind's: bid from+"0000" and to+"2359" as        *)
(* bidNtceBgnDt/bidNtceEndDt, award the same as opengBgnDt/opengEndDt,      *)
(* contract the bare dates as cntrctCnclsBgnDate/cntrctCnclsEndDate; the    *)
(* category code bsnsDivCd is on award calls only and is "5" when the       *)
(* caller gives none; the calls of one request differ in pageNo only.       *)
C23_KindFields ==
  /\ \A c \in 1..Len(calls) :
       LET ps == calls[c].url.params
       IN  /\ DOMAIN ps = CommonFields \cup KindFields(kind)
           /\ calls[c].url.endpoint = endpointByKind(kind)
           /\ kind = Bid =>
                /\ ps.bidNtceBgnDt = fromYmd \o <<"0", "0", "0", "0">>
                /\ ps.bidNtceEndDt = toYmd \o <<"2", "3", "5", "9">>
           /\ kind = Award =>
                /\ ps.opengBgnDt = fromYmd \o <<"0", "0", "0", "0">>
                /\ ps.opengEndDt = toYmd \o <<"2", "3", "5", "9">>
                /\ ps.bsnsDivCd = CategoryGiven
           /\ kind = Contract =>
                /\ ps.cntrctCnclsBgnDate = fromYmd
                /\ ps.cntrctCnclsEndDate = toYmd
  /\ \A c, d \in 1..Len(calls) :
       calls[c].url.endpoint = calls[d].url.endpoint /\ ButPage(c) = ButPage(d)

\* a bid request given a category code, with three calls made
C23_Witness ==
  /\ kind = Bid
  /\ query.bsnsDivCd = Str(<<"3">>)
  /\ Len(calls) = 3
  /\ Succeeded

\* the page number call c carries
PageSent(c) == DigitsVal(calls[c].url.params.pageNo)

(* C25: every page number sent to the upstream, in any call of any request, *)
(* the follow-up pages included, lies within 1..9999; rowsPerPage lies      *)
(* within 1..1000 and maxPages within 1..10 for every caller input.         *)
C25_PagesWithinClamp ==
  calls # <<>> =>
    /\ \A c \in 1..Len(calls) :
         /\ AllDigits(calls[c].url.params.pageNo)
         /\ PageSent(c) >= 1 /\ PageSent(c) <= ClampMaxPage
         /\ DigitsVal(calls[c].url.params.numOfRows) \in 1..ClampMaxRows
    /\ numOfRows \in 1..ClampMaxRows
    /\ pageNo \in 1..ClampMaxPage
    /\ maxPages \in 1..ClampMaxPages

(* C26: no upstream call carries an empty credential: for every configured  *)
(* credential, one of blanks only included, either the request ends with    *)
(* the configuration-error payload before any call, or every call carries a *)
(* serviceKey that is not empty.                                            *)
C26_NoEmptyCredential ==
  /\ \A c \in 1..Len(calls) : calls[c].url.params.serviceKey # <<>>
  /\ (pc = "done" /\ calls = <<>>) => res = <<missingKeyResponse>>

\* a configured credential other than the request's
OtherCredentials == {Str(<<"z">>)}

\* the success payload the handler builds from the same query and the same
\* upstream replies when the configured credential is key
PayloadUnder(key) ==
  finalResponse(results, kind, q, filterEnabled, totalCount, pagesToFetch, numOfRows,
                pageNo, fromYmd, toYmd,
                urlFor(kind, normalizeServiceKey(key), numOfRows, fromYmd, toYmd, query, pageNo))

(* C24: the payload does not reveal the access credential: a request under  *)
(* another configured credential that receives the same upstream responses  *)
(* gets the same payload, and the sourceUrl reported carries no credential. *)
C24_CredentialNotRevealed ==
  Succeeded =>
    /\ \A key \in OtherCredentials : res[Len(res)] = PayloadUnder(key)
    /\ "serviceKey" \notin DOMAIN res[Len(res)].body.sourceUrl.params
====
